---- MODULE Spec2Model ----
(***************************************************************************)
(* The explicit-free-list allocator of memoryhelp.c / main.c:              *)
(* my_initialize_heap, my_alloc and my_free over one malloc'ed arena.      *)
(* Memory is modelled word by word (one word = POINTER_SIZE bytes), so a   *)
(* struct Block at address a is the word at a (block_size) and the word at *)
(* a + NextOff (next_block), and a header write can alias a payload.       *)
(***************************************************************************)
EXTENDS Integers, Sequences, FiniteSets, TLC

(***************************************************************************)
(* Program constants (LP64 target: int is 4 bytes, pointers are 8).        *)
(***************************************************************************)
OVERHEAD_SIZE == 16

POINTER_SIZE == 8

NULL == 0

\* offsetof(struct Block, next_block): the int is padded to pointer alignment
NextOff == OVERHEAD_SIZE - POINTER_SIZE

\* the address malloc hands back for the arena when it succeeds
HeapBase == 4096

\* sizeof(int), sizeof(char), sizeof(double) as used by the callers
SizeofInt == 4

SizeofChar == 1

SizeofDouble == 8

(***************************************************************************)
(* Bounds of the model.                                                    *)
(***************************************************************************)
\* successful my_alloc calls in one run of the free caller
MaxAllocs == 3

\* menu options started in one run of main
MaxMenus == 2

\* the capacity main hands to my_initialize_heap
MainHeapSize == 1000

\* capacities tried: main's, and a small one that is no multiple of the unit
HeapSizes == {MainHeapSize, 61}

\* request sizes tried by the caller
Sizes == {-1, 0, SizeofInt, 2 * SizeofDouble, 80 * SizeofInt}

\* what the fresh arena may contain (malloc does not clear it)
Garbage == {0, 85}

(***************************************************************************)
(* 32-bit int arithmetic.                                                  *)
(***************************************************************************)
\* INT_MAX and INT_MIN of a 32-bit int
IntMax == 2147483647

IntMin == -IntMax - 1

\* x + y in int, wrapping around at the ends of the range
AddInt(x, y) ==
    IF y >= 0 /\ x > IntMax - y THEN IntMin + (y - (IntMax - x) - 1)
    ELSE IF y < 0 /\ x < IntMin - y THEN IntMax + (y - (IntMin - x) + 1)
    ELSE x + y

\* x + y does not fit an int: the addition is undefined in C
AddOverflows(x, y) ==
    \/ y > 0 /\ x > IntMax - y
    \/ y < 0 /\ x < IntMin - y

\* the low 31 bits of a two's-complement int
Low31(x) == IF x >= 0 THEN x ELSE x - IntMin

RECURSIVE AndBits(_, _, _)
AndBits(a, b, n) ==
    IF n = 0 \/ a = 0 \/ b = 0 THEN 0
    ELSE (a % 2) * (b % 2) + 2 * AndBits(a \div 2, b \div 2, n - 1)

\* x & y on two's-complement ints: the low 31 bits, then the sign bit
BitAnd32(x, y) ==
    AndBits(Low31(x), Low31(y), 31) + (IF x < 0 /\ y < 0 THEN IntMin ELSE 0)

\* ~x on two's-complement ints
BitNot32(x) == -x - 1

(***************************************************************************)
(* State.                                                                  *)
(***************************************************************************)
VARIABLES
    free_head,    \* struct Block *free_head
    mem,          \* the arena, word address -> word
    heap,         \* [base, size] of the malloc'ed region; base = NULL if none
    initialized,  \* my_initialize_heap has been called
    live,         \* pointers returned by my_alloc and not yet passed to my_free
    call,         \* the last call: what was asked and what came back
    prev,         \* the call before it
    nalloc,       \* successful my_alloc calls so far
    pc,           \* main and its menu options: the function and statement reached
    loc,          \* the local variables of the running menu option
    nmenu,        \* menu options started so far
    arith,        \* the size arithmetic of my_alloc taken alone: statement and values
    thr,          \* callers running my_alloc and my_free line by line: statement and locals
    sched         \* whether the two functions are critical sections, and who is inside

vars == <<free_head, mem, heap, initialized, live, call, prev, nalloc,
          pc, loc, nmenu, arith, thr, sched>>

\* the state of main and the menu options
menu == <<pc, loc, nmenu>>

NoCall == [op |-> "none", arg |-> 0, ret |-> NULL, visited |-> <<>>,
           found |-> NULL, newBlock |-> NULL]

\* word addresses of a region of `bytes` bytes starting at base
WordsOf(base, bytes) ==
    {base + POINTER_SIZE * k : k \in 0 .. ((bytes + POINTER_SIZE - 1) \div POINTER_SIZE) - 1}

\* one store into memory
Store(m, a, v) == [m EXCEPT ![a] = v]

\* curr->block_size, curr->next_block
BlockSize(m, b) == m[b]

NextBlock(m, b) == m[b + NextOff]

(***************************************************************************)
(* my_initialize_heap(size); mallocOk is malloc's outcome.                 *)
(***************************************************************************)
\* faulty variant: the header is counted in the first block's size
InitHeapMem_SizeWithHeader(size, g) ==
    LET raw == [a \in WordsOf(HeapBase, size + OVERHEAD_SIZE) |-> g]
    IN  Store(Store(raw, HeapBase, size + OVERHEAD_SIZE), HeapBase + NextOff, NULL)

InitHeapMem(size, g) ==
    LET raw == [a \in WordsOf(HeapBase, size + OVERHEAD_SIZE) |-> g]
    IN  Store(Store(raw, HeapBase, size), HeapBase + NextOff, NULL)

my_initialize_heap(size, mallocOk, g) ==
    /\ ~initialized
    /\ initialized' = TRUE
    /\ IF mallocOk
       THEN /\ free_head' = HeapBase
            /\ mem' = InitHeapMem(size, g)
            /\ heap' = [base |-> HeapBase, size |-> size]
       ELSE /\ free_head' = NULL
            /\ UNCHANGED <<mem, heap>>
    /\ prev' = call
    /\ call' = [NoCall EXCEPT !.op = "init", !.arg = size,
                              !.ret = IF mallocOk THEN HeapBase ELSE NULL]
    /\ UNCHANGED <<live, nalloc>>

(***************************************************************************)
(* my_alloc(size)                                                          *)
(***************************************************************************)
\* faulty variant: the size test lets 0 through
InvalidSize_ZeroPasses(size) == size < 0

\* size <= 0: the request is refused before anything is looked at
InvalidSize(size) == size <= 0

\* faulty variant: the mask is applied without adding POINTER_SIZE - 1 first
AlignedSize_RoundDown(size) == BitAnd32(size, BitNot32(POINTER_SIZE - 1))

\* (size + POINTER_SIZE - 1) & ~(POINTER_SIZE - 1)
\* faulty variant: the size is used as given
AlignedSize_NoRounding(size) == size

AlignedSize(size) ==
    BitAnd32(AddInt(AddInt(size, POINTER_SIZE), -1), BitNot32(POINTER_SIZE - 1))

RequiredSize(alignedSize) == AddInt(alignedSize, OVERHEAD_SIZE)

\* faulty variant: the block is compared with the request without its header
Fits_PayloadOnly(blockSize, requiredSize) == blockSize >= requiredSize - OVERHEAD_SIZE

\* curr->block_size >= requiredSize
Fits(blockSize, requiredSize) == blockSize >= requiredSize

\* curr->block_size >= requiredSize + OVERHEAD_SIZE + POINTER_SIZE
\* faulty variant: the threshold leaves no room for the remainder's header
CanSplit_HeaderForgotten(blockSize, requiredSize) ==
    blockSize >= requiredSize + POINTER_SIZE

CanSplit(blockSize, requiredSize) ==
    blockSize >= AddInt(AddInt(requiredSize, OVERHEAD_SIZE), POINTER_SIZE)

\* faulty variant: the remainder's header is put one word too far
NewBlockAddr_Skewed(curr, requiredSize) == curr + requiredSize + POINTER_SIZE

\* (char *)curr + requiredSize
NewBlockAddr(curr, requiredSize) == curr + requiredSize

\* (char *)curr + OVERHEAD_SIZE
PayloadOf(curr) == curr + OVERHEAD_SIZE

\* faulty variant: the walk goes on while the next block fits as well
RECURSIVE Scan_LastFit(_, _, _, _, _)
Scan_LastFit(m, curr, prv, requiredSize, seen) ==
    IF curr = NULL
    THEN [curr |-> NULL, prev |-> prv, visited |-> seen]
    ELSE IF /\ Fits(BlockSize(m, curr), requiredSize)
            /\ ~(/\ NextBlock(m, curr) # NULL
                 /\ Fits(BlockSize(m, NextBlock(m, curr)), requiredSize))
         THEN [curr |-> curr, prev |-> prv, visited |-> Append(seen, curr)]
         ELSE Scan_LastFit(m, NextBlock(m, curr), curr, requiredSize,
                           Append(seen, curr))

\* faulty variant: the loop looks at curr before testing it for NULL
RECURSIVE Scan_LooksFirst(_, _, _, _, _)
Scan_LooksFirst(m, curr, prv, requiredSize, seen) ==
    IF curr = NULL
    THEN [curr |-> NULL, prev |-> prv, visited |-> Append(seen, curr)]
    ELSE IF Fits(BlockSize(m, curr), requiredSize)
         THEN [curr |-> curr, prev |-> prv, visited |-> Append(seen, curr)]
         ELSE Scan_LooksFirst(m, NextBlock(m, curr), curr, requiredSize,
                              Append(seen, curr))

\* the while loop: walk the list until a block fits or the list ends
RECURSIVE Scan(_, _, _, _, _)
Scan(m, curr, prv, requiredSize, seen) ==
    IF curr = NULL
    THEN [curr |-> NULL, prev |-> prv, visited |-> seen]
    ELSE IF Fits(BlockSize(m, curr), requiredSize)
         THEN [curr |-> curr, prev |-> prv, visited |-> Append(seen, curr)]
         ELSE Scan(m, NextBlock(m, curr), curr, requiredSize, Append(seen, curr))

\* faulty variant: the selected block's size is not cut down to alignedSize
SplitBlock_CurrSizeKept(h, m, curr, prv, alignedSize, requiredSize) ==
    LET newBlock == NewBlockAddr(curr, requiredSize)
        m1 == Store(m, newBlock, BlockSize(m, curr) - requiredSize)
        m2 == Store(m1, newBlock + NextOff, NextBlock(m1, curr))
    IN  IF prv = NULL
        THEN [head |-> newBlock, mem |-> m2, newBlock |-> newBlock]
        ELSE [head |-> h, mem |-> Store(m2, prv + NextOff, newBlock),
              newBlock |-> newBlock]

\* faulty variant: the remainder keeps the header's bytes in its size
SplitBlock_SizeKeepsHeader(h, m, curr, prv, alignedSize, requiredSize) ==
    LET newBlock == NewBlockAddr(curr, requiredSize)
        m1 == Store(m, newBlock, BlockSize(m, curr) - alignedSize)
        m2 == Store(m1, newBlock + NextOff, NextBlock(m1, curr))
        m3 == Store(m2, curr, alignedSize)
    IN  IF prv = NULL
        THEN [head |-> newBlock, mem |-> m3, newBlock |-> newBlock]
        ELSE [head |-> h, mem |-> Store(m3, prv + NextOff, newBlock),
              newBlock |-> newBlock]

\* the split branch: the stores in program order, then the relink
\* faulty variant: the remainder always becomes the head of the list
SplitBlock_AlwaysHead(h, m, curr, prv, alignedSize, requiredSize) ==
    LET newBlock == NewBlockAddr(curr, requiredSize)
        m1 == Store(m, newBlock, BlockSize(m, curr) - requiredSize)
        m2 == Store(m1, newBlock + NextOff, NextBlock(m1, curr))
        m3 == Store(m2, curr, alignedSize)
    IN  [head |-> newBlock, mem |-> m3, newBlock |-> newBlock]

\* faulty variant: the remainder's size counts the header without its padding
SplitBlock_UnpaddedHeader(h, m, curr, prv, alignedSize, requiredSize) ==
    LET newBlock == NewBlockAddr(curr, requiredSize)
        m1 == Store(m, newBlock,
                    BlockSize(m, curr) - alignedSize - (SizeofInt + POINTER_SIZE))
        m2 == Store(m1, newBlock + NextOff, NextBlock(m1, curr))
        m3 == Store(m2, curr, alignedSize)
    IN  IF prv = NULL
        THEN [head |-> newBlock, mem |-> m3, newBlock |-> newBlock]
        ELSE [head |-> h, mem |-> Store(m3, prv + NextOff, newBlock),
              newBlock |-> newBlock]

SplitBlock(h, m, curr, prv, alignedSize, requiredSize) ==
    LET newBlock == NewBlockAddr(curr, requiredSize)
        m1 == Store(m, newBlock, BlockSize(m, curr) - requiredSize)
        m2 == Store(m1, newBlock + NextOff, NextBlock(m1, curr))
        m3 == Store(m2, curr, alignedSize)
    IN  IF prv = NULL
        THEN [head |-> newBlock, mem |-> m3, newBlock |-> newBlock]
        ELSE [head |-> h, mem |-> Store(m3, prv + NextOff, newBlock),
              newBlock |-> newBlock]

\* the else branch: take the whole block out of the list
\* faulty variant: the block is returned but stays linked
TakeWhole_NotUnlinked(h, m, curr, prv) ==
    [head |-> h, mem |-> m, newBlock |-> NULL]

TakeWhole(h, m, curr, prv) ==
    IF prv = NULL
    THEN [head |-> NextBlock(m, curr), mem |-> m, newBlock |-> NULL]
    ELSE [head |-> h, mem |-> Store(m, prv + NextOff, NextBlock(m, curr)),
          newBlock |-> NULL]

\* the whole function: the new head and memory, the pointer returned, and
\* which blocks the loop looked at
AllocResult(h, m, size) ==
    IF InvalidSize(size)
    THEN [head |-> h, mem |-> m, ret |-> NULL, visited |-> <<>>,
          found |-> NULL, newBlock |-> NULL]
    ELSE LET alignedSize == AlignedSize(size)
             requiredSize == RequiredSize(alignedSize)
             s == Scan(m, h, NULL, requiredSize, <<>>)
         IN  IF s.curr = NULL
             THEN [head |-> h, mem |-> m, ret |-> NULL, visited |-> s.visited,
                   found |-> NULL, newBlock |-> NULL]
             ELSE LET r == IF CanSplit(BlockSize(m, s.curr), requiredSize)
                           THEN SplitBlock(h, m, s.curr, s.prev, alignedSize, requiredSize)
                           ELSE TakeWhole(h, m, s.curr, s.prev)
                  IN  [head |-> r.head, mem |-> r.mem, ret |-> PayloadOf(s.curr),
                       visited |-> s.visited, found |-> s.curr,
                       newBlock |-> r.newBlock]

my_alloc(size) ==
    \E r \in {AllocResult(free_head, mem, size)} :
        /\ free_head' = r.head
        /\ mem' = r.mem
        /\ live' = IF r.ret = NULL THEN live ELSE live \cup {r.ret}
        /\ nalloc' = IF r.ret = NULL THEN nalloc ELSE nalloc + 1
        /\ prev' = call
        /\ call' = [op |-> "alloc", arg |-> size, ret |-> r.ret,
                    visited |-> r.visited, found |-> r.found,
                    newBlock |-> r.newBlock]
        /\ UNCHANGED <<heap, initialized>>

(***************************************************************************)
(* my_free(ptr)                                                            *)
(***************************************************************************)
\* faulty variant: the header is sought one word, not one header, before ptr
HeaderOf_OneWord(ptr) == ptr - POINTER_SIZE

\* (char *)ptr - OVERHEAD_SIZE
HeaderOf(ptr) == ptr - OVERHEAD_SIZE

\* faulty variant: a released block that ends where the head block begins absorbs it
FreeResult_Coalesce(h, m, ptr) ==
    IF ptr = NULL
    THEN [head |-> h, mem |-> m]
    ELSE LET blockToFree == HeaderOf(ptr)
         IN  IF h # NULL /\ blockToFree + OVERHEAD_SIZE + BlockSize(m, blockToFree) = h
             THEN [head |-> blockToFree,
                   mem |-> Store(Store(m, blockToFree,
                                       BlockSize(m, blockToFree) + OVERHEAD_SIZE + BlockSize(m, h)),
                                 blockToFree + NextOff, NextBlock(m, h))]
             ELSE [head |-> blockToFree, mem |-> Store(m, blockToFree + NextOff, h)]

\* faulty variant: the NULL test is missing
FreeResult_NoNullTest(h, m, ptr) ==
    LET blockToFree == HeaderOf(ptr)
    IN  [head |-> blockToFree,
         mem |-> IF blockToFree + NextOff \in DOMAIN m
                 THEN Store(m, blockToFree + NextOff, h) ELSE m]

\* faulty variant: the released block is not linked to the old head
FreeResult_NoLink(h, m, ptr) ==
    IF ptr = NULL
    THEN [head |-> h, mem |-> m]
    ELSE [head |-> HeaderOf(ptr), mem |-> m]

FreeResult(h, m, ptr) ==
    IF ptr = NULL
    THEN [head |-> h, mem |-> m]
    ELSE LET blockToFree == HeaderOf(ptr)
         IN  [head |-> blockToFree, mem |-> Store(m, blockToFree + NextOff, h)]

my_free(ptr) ==
    \E r \in {FreeResult(free_head, mem, ptr)} :
        /\ free_head' = r.head
        /\ mem' = r.mem
        /\ live' = live \ {ptr}
        /\ prev' = call
        /\ call' = [NoCall EXCEPT !.op = "free", !.arg = ptr]
        /\ UNCHANGED <<heap, initialized, nalloc>>

(***************************************************************************)
(* The start of the program: free_head is a zeroed global, no arena yet,   *)
(* main not yet entered.                                                   *)
(***************************************************************************)
\* my_alloc's size arithmetic has not been entered
NoArith == [pc |-> "idle", size |-> 0, alignedSize |-> 0, requiredSize |-> 0,
            overflow |-> FALSE]

\* the callers of the line-by-line functions
Threads == {1, 2}

\* a caller outside both functions, holding nothing
NoThread ==
    [pc |-> "idle", op |-> "none", size |-> 0, alignedSize |-> 0,
     requiredSize |-> 0, curr |-> NULL, prev |-> NULL, newBlock |-> NULL,
     ptr |-> NULL, blockToFree |-> NULL, ret |-> NULL,
     held |-> {}, freed |-> NULL, gave |-> {}, twice |-> {},
     seen |-> {}, again |-> FALSE, ncalls |-> 0]

NoThreads == [t \in Threads |-> NoThread]

\* no critical sections, nobody inside
NoSched == [locking |-> FALSE, owner |-> 0]

LocalNames == {"numOne", "numTwo", "numThree", "numFour", "arr", "charOne",
               "valueBefore", "valueAfter"}

NoLocals == [v \in LocalNames |-> NULL]

AtMain(n) == [fn |-> "main", at |-> n]

Init ==
    /\ free_head = NULL
    /\ mem = [a \in {} |-> 0]
    /\ heap = [base |-> NULL, size |-> 0]
    /\ initialized = FALSE
    /\ live = {}
    /\ call = NoCall
    /\ prev = NoCall
    /\ nalloc = 0
    /\ pc = AtMain(0)
    /\ loc = NoLocals
    /\ nmenu = 0
    /\ arith = NoArith
    /\ thr = NoThreads
    /\ sched = NoSched

(***************************************************************************)
(* A well-behaved caller: initialize once, allocate any size, release only *)
(* NULL or a pointer it holds.                                             *)
(***************************************************************************)
Initialize ==
    /\ \E size \in HeapSizes, ok \in BOOLEAN, g \in Garbage :
           my_initialize_heap(size, ok, g)
    /\ UNCHANGED <<menu, arith, thr, sched>>

Allocate ==
    /\ nalloc < MaxAllocs
    /\ \E size \in Sizes : my_alloc(size)
    /\ UNCHANGED <<menu, arith, thr, sched>>

Release ==
    /\ \E ptr \in live \cup {NULL} : my_free(ptr)
    /\ UNCHANGED <<menu, arith, thr, sched>>

Next == Initialize \/ Allocate \/ Release

Spec == Init /\ [][Next]_vars

(***************************************************************************)
(* main and the five menu options, statement by statement.  Each option is *)
(* its sequence of calls; orReturn marks the allocations of menuOptionTwo  *)
(* that return early on NULL, "read" is the printing of *numOne.           *)
(***************************************************************************)
Ins(op, var, size, orReturn) ==
    [op |-> op, var |-> var, size |-> size, orReturn |-> orReturn]

Script(fn) ==
    CASE fn = "menuOptionOne" ->
           << Ins("alloc", "numOne", SizeofInt, FALSE),
              Ins("free", "numOne", 0, FALSE),
              Ins("alloc", "numTwo", SizeofInt, FALSE) >>
      [] fn = "menuOptionTwo" ->
           << Ins("alloc", "numOne", SizeofInt, TRUE),
              Ins("alloc", "numTwo", SizeofInt, TRUE) >>
      [] fn = "menuOptionThree" ->
           << Ins("alloc", "numOne", SizeofInt, FALSE),
              Ins("alloc", "numTwo", SizeofInt, FALSE),
              Ins("alloc", "numThree", SizeofInt, FALSE),
              Ins("free", "numTwo", 0, FALSE),
              Ins("alloc", "arr", 2 * SizeofDouble, FALSE),
              Ins("alloc", "numFour", SizeofInt, FALSE) >>
      [] fn = "menuOptionFour" ->
           << Ins("alloc", "charOne", SizeofChar, FALSE),
              Ins("alloc", "numTwo", SizeofInt, FALSE) >>
      [] fn = "menuOptionFive" ->
           << Ins("alloc", "arr", 80 * SizeofInt, FALSE),
              Ins("alloc", "numOne", SizeofInt, FALSE),
              Ins("read", "valueBefore", 0, FALSE),
              Ins("free", "arr", 0, FALSE),
              Ins("read", "valueAfter", 0, FALSE) >>
      [] OTHER -> << >>

\* the statement after the last one: the option is about to return
AtEnd(fn) == [fn |-> fn, at |-> Len(Script(fn)) + 1]

\* one statement of menu option fn
RunStep(fn) ==
    /\ pc.fn = fn
    /\ pc.at <= Len(Script(fn))
    /\ LET ins == Script(fn)[pc.at]
           next == [pc EXCEPT !.at = pc.at + 1]
       IN  CASE ins.op = "alloc" ->
                  /\ my_alloc(ins.size)
                  /\ loc' = [loc EXCEPT ![ins.var] = call'.ret]
                  /\ pc' = IF ins.orReturn /\ call'.ret = NULL THEN AtEnd(fn) ELSE next
             [] ins.op = "free" ->
                  /\ my_free(loc[ins.var])
                  /\ loc' = loc
                  /\ pc' = next
             [] ins.op = "read" ->
                  \* printf("%d", *numOne): a NULL numOne ends the program
                  /\ IF loc["numOne"] = NULL
                     THEN pc' = [fn |-> "crashed", at |-> 0] /\ loc' = loc
                     ELSE pc' = next /\ loc' = [loc EXCEPT ![ins.var] = mem[loc["numOne"]]]
                  /\ UNCHANGED <<free_head, mem, heap, initialized, live, call, prev, nalloc>>
    /\ UNCHANGED <<nmenu, arith, thr, sched>>

menuOptionOne == RunStep("menuOptionOne")

menuOptionTwo == RunStep("menuOptionTwo")

menuOptionThree == RunStep("menuOptionThree")

menuOptionFour == RunStep("menuOptionFour")

menuOptionFive == RunStep("menuOptionFive")

\* main: my_initialize_heap(1000) before the loop
MainInit ==
    /\ pc = AtMain(0)
    /\ \E ok \in BOOLEAN, g \in Garbage : my_initialize_heap(MainHeapSize, ok, g)
    /\ pc' = AtMain(1)
    /\ UNCHANGED <<loc, nmenu, arith, thr, sched>>

MenuFns == <<"menuOptionOne", "menuOptionTwo", "menuOptionThree",
             "menuOptionFour", "menuOptionFive">>

\* main: the menu choice 1..5 enters the option
MainChoose ==
    /\ pc = AtMain(1)
    /\ nmenu < MaxMenus
    /\ \E k \in 1 .. Len(MenuFns) : pc' = [fn |-> MenuFns[k], at |-> 1]
    /\ loc' = NoLocals
    /\ nmenu' = nmenu + 1
    /\ UNCHANGED <<free_head, mem, heap, initialized, live, call, prev, nalloc, arith, thr, sched>>

\* the option returns to the loop of main
MainReturn ==
    /\ pc.fn # "main"
    /\ pc = AtEnd(pc.fn)
    /\ pc' = AtMain(1)
    /\ loc' = NoLocals
    /\ UNCHANGED <<free_head, mem, heap, initialized, live, call, prev, nalloc, nmenu, arith, thr, sched>>

\* main: the menu choice 6 ends the loop
MainQuit ==
    /\ pc = AtMain(1)
    /\ pc' = AtMain(2)
    /\ UNCHANGED <<free_head, mem, heap, initialized, live, call, prev, nalloc,
                   loc, nmenu, arith, thr, sched>>

NextMain ==
    \/ MainInit
    \/ MainChoose
    \/ menuOptionOne
    \/ menuOptionTwo
    \/ menuOptionThree
    \/ menuOptionFour
    \/ menuOptionFive
    \/ MainReturn
    \/ MainQuit

SpecMain == Init /\ [][NextMain]_vars

(***************************************************************************)
(* The balanced caller: main's my_initialize_heap(1000), then rounds of    *)
(* p = my_alloc(sizeof(int)); my_free(p), never holding two pointers.      *)
(***************************************************************************)
MaxRounds == 44

BalInit ==
    /\ \E ok \in BOOLEAN, g \in Garbage : my_initialize_heap(MainHeapSize, ok, g)
    /\ UNCHANGED <<menu, arith, thr, sched>>

BalAlloc ==
    /\ initialized
    /\ live = {}
    /\ nalloc < MaxRounds
    /\ my_alloc(SizeofInt)
    /\ UNCHANGED <<menu, arith, thr, sched>>

BalFree ==
    /\ \E ptr \in live : my_free(ptr)
    /\ UNCHANGED <<menu, arith, thr, sched>>

NextBalanced == BalInit \/ BalAlloc \/ BalFree

SpecBalanced == Init /\ [][NextBalanced]_vars

(***************************************************************************)
(* The size arithmetic of my_alloc taken alone (lines 33 to 41), entered   *)
(* with any int.  An int addition whose result does not fit is undefined:  *)
(* the build either wraps around (the plain add instruction) or traps      *)
(* (-ftrapv, a sanitizer).                                                 *)
(***************************************************************************)
ArithSizes ==
    {-1, 0} \cup (1 .. 3 * POINTER_SIZE)
            \cup {IntMax - k : k \in 0 .. 5 * POINTER_SIZE}

OverflowOutcomes == {"wrap", "trap"}

ArithInit ==
    /\ free_head = NULL
    /\ mem = [a \in {} |-> 0]
    /\ heap = [base |-> NULL, size |-> 0]
    /\ initialized = FALSE
    /\ live = {}
    /\ call = NoCall
    /\ prev = NoCall
    /\ nalloc = 0
    /\ pc = AtMain(0)
    /\ loc = NoLocals
    /\ nmenu = 0
    /\ \E size \in ArithSizes : arith = [NoArith EXCEPT !.pc = "line33", !.size = size]
    /\ thr = NoThreads
    /\ sched = NoSched

ArithFrame ==
    UNCHANGED <<free_head, mem, heap, initialized, live, call, prev, nalloc, menu,
                thr, sched>>

\* if (size <= 0) return NULL;
ArithCheck ==
    /\ arith.pc = "line33"
    /\ arith' = [arith EXCEPT !.pc = IF InvalidSize(arith.size)
                                     THEN "returned" ELSE "line40"]
    /\ ArithFrame

\* int alignedSize = (size + POINTER_SIZE - 1) & ~(POINTER_SIZE - 1);
ArithAlign ==
    /\ arith.pc = "line40"
    /\ IF \/ AddOverflows(arith.size, POINTER_SIZE)
          \/ AddOverflows(AddInt(arith.size, POINTER_SIZE), -1)
       THEN \E o \in OverflowOutcomes :
               arith' = IF o = "trap"
                        THEN [arith EXCEPT !.pc = "trapped", !.overflow = TRUE]
                        ELSE [arith EXCEPT !.pc = "line41", !.overflow = TRUE,
                                           !.alignedSize = AlignedSize(arith.size)]
       ELSE arith' = [arith EXCEPT !.pc = "line41",
                                   !.alignedSize = AlignedSize(arith.size)]
    /\ ArithFrame

\* int requiredSize = alignedSize + OVERHEAD_SIZE;
ArithRequire ==
    /\ arith.pc = "line41"
    /\ IF AddOverflows(arith.alignedSize, OVERHEAD_SIZE)
       THEN \E o \in OverflowOutcomes :
               arith' = IF o = "trap"
                        THEN [arith EXCEPT !.pc = "trapped", !.overflow = TRUE]
                        ELSE [arith EXCEPT !.pc = "line43", !.overflow = TRUE,
                                           !.requiredSize = RequiredSize(arith.alignedSize)]
       ELSE arith' = [arith EXCEPT !.pc = "line43",
                                   !.requiredSize = RequiredSize(arith.alignedSize)]
    /\ ArithFrame

NextArith == ArithCheck \/ ArithAlign \/ ArithRequire

SpecArith == ArithInit /\ [][NextArith]_vars

(***************************************************************************)
(* my_alloc and my_free line by line, run by caller t.  Each action is one *)
(* statement: its reads and writes of free_head and of the arena happen    *)
(* in that step, the locals live in thr[t].                                *)
(***************************************************************************)
StepFrame == UNCHANGED <<heap, initialized, call, prev, nalloc, menu, arith>>

\* faulty variant: the critical sections exclude nobody
MayRun_NoLock(t) == TRUE

\* t may run: there are no critical sections, or t is inside, or nobody is
MayRun(t) == ~sched.locking \/ sched.owner \in {0, t}

Enter(t) == sched' = IF sched.locking THEN [sched EXCEPT !.owner = t] ELSE sched

Leave(t) == sched' = IF sched.locking THEN [sched EXCEPT !.owner = 0] ELSE sched

\* the pointers held by any caller
AllHeld == UNION {thr[t].held : t \in Threads}

\* the locals of a call are gone once it has returned
Returned(r) ==
    [r EXCEPT !.pc = "idle", !.size = 0, !.alignedSize = 0, !.requiredSize = 0,
              !.curr = NULL, !.prev = NULL, !.newBlock = NULL, !.ptr = NULL,
              !.blockToFree = NULL, !.seen = {}]

\* return ret; from my_alloc
AllocReturn(t, ret) ==
    /\ thr' = [thr EXCEPT ![t] =
                 [Returned(thr[t]) EXCEPT
                     !.ret = ret,
                     !.held = IF ret = NULL THEN @ ELSE @ \cup {ret},
                     !.twice = @ \cup ({ret} \cap AllHeld),
                     !.freed = NULL]]
    /\ live' = IF ret = NULL THEN live ELSE live \cup {ret}
    /\ Leave(t)

\* the caller calls my_alloc(size)
StartAlloc(t, size, maxCalls) ==
    /\ initialized
    /\ thr[t].pc = "idle"
    /\ thr[t].ncalls < maxCalls
    /\ MayRun(t)
    /\ thr' = [thr EXCEPT ![t] = [@ EXCEPT !.pc = "a33", !.op = "alloc",
                                            !.size = size, !.ret = NULL,
                                            !.again = FALSE,
                                            !.ncalls = @ + 1]]
    /\ Enter(t)
    /\ UNCHANGED <<free_head, mem, live>>
    /\ StepFrame

\* if (size <= 0) return NULL;
Alloc33(t) ==
    /\ thr[t].pc = "a33"
    /\ IF InvalidSize(thr[t].size)
       THEN AllocReturn(t, NULL)
       ELSE /\ thr' = [thr EXCEPT ![t].pc = "a40"]
            /\ UNCHANGED <<live, sched>>
    /\ UNCHANGED <<free_head, mem>>
    /\ StepFrame

\* int alignedSize = ...; int requiredSize = alignedSize + OVERHEAD_SIZE;
Alloc40(t) ==
    /\ thr[t].pc = "a40"
    /\ thr' = [thr EXCEPT ![t] =
                 [@ EXCEPT !.pc = "a43",
                           !.alignedSize = AlignedSize(thr[t].size),
                           !.requiredSize = RequiredSize(AlignedSize(thr[t].size))]]
    /\ UNCHANGED <<free_head, mem, live, sched>>
    /\ StepFrame

\* struct Block *curr = free_head; struct Block *prev = NULL;
Alloc43(t) ==
    /\ thr[t].pc = "a43"
    /\ thr' = [thr EXCEPT ![t] = [@ EXCEPT !.pc = "a47", !.curr = free_head,
                                            !.prev = NULL]]
    /\ UNCHANGED <<free_head, mem, live, sched>>
    /\ StepFrame

\* while (curr != NULL) ... return NULL;
Alloc47(t) ==
    /\ thr[t].pc = "a47"
    /\ IF thr[t].curr = NULL
       THEN AllocReturn(t, NULL)
       ELSE /\ thr' = [thr EXCEPT ![t].pc = "a49"]
            /\ UNCHANGED <<live, sched>>
    /\ UNCHANGED <<free_head, mem>>
    /\ StepFrame

\* if (curr->block_size >= requiredSize)
Alloc49(t) ==
    /\ thr[t].pc = "a49"
    /\ thr' = [thr EXCEPT ![t] =
                 [@ EXCEPT !.pc = IF Fits(BlockSize(mem, thr[t].curr),
                                          thr[t].requiredSize)
                                  THEN "a52" ELSE "a88",
                           !.seen = @ \cup {thr[t].curr},
                           !.again = @ \/ thr[t].curr \in thr[t].seen]]
    /\ UNCHANGED <<free_head, mem, live, sched>>
    /\ StepFrame

\* if (curr->block_size >= requiredSize + OVERHEAD_SIZE + POINTER_SIZE)
Alloc52(t) ==
    /\ thr[t].pc = "a52"
    /\ thr' = [thr EXCEPT ![t].pc =
                 IF CanSplit(BlockSize(mem, thr[t].curr), thr[t].requiredSize)
                 THEN "a55" ELSE "a73"]
    /\ UNCHANGED <<free_head, mem, live, sched>>
    /\ StepFrame

\* newBlock = (char *)curr + requiredSize;
\* newBlock->block_size = curr->block_size - requiredSize;
Alloc55(t) ==
    /\ thr[t].pc = "a55"
    /\ LET newBlock == NewBlockAddr(thr[t].curr, thr[t].requiredSize)
       IN  /\ mem' = Store(mem, newBlock,
                           BlockSize(mem, thr[t].curr) - thr[t].requiredSize)
           /\ thr' = [thr EXCEPT ![t] = [@ EXCEPT !.pc = "a57",
                                                   !.newBlock = newBlock]]
    /\ UNCHANGED <<free_head, live, sched>>
    /\ StepFrame

\* newBlock->next_block = curr->next_block;
Alloc57(t) ==
    /\ thr[t].pc = "a57"
    /\ mem' = Store(mem, thr[t].newBlock + NextOff, NextBlock(mem, thr[t].curr))
    /\ thr' = [thr EXCEPT ![t].pc = "a59"]
    /\ UNCHANGED <<free_head, live, sched>>
    /\ StepFrame

\* curr->block_size = alignedSize;
Alloc59(t) ==
    /\ thr[t].pc = "a59"
    /\ mem' = Store(mem, thr[t].curr, thr[t].alignedSize)
    /\ thr' = [thr EXCEPT ![t].pc = "a62"]
    /\ UNCHANGED <<free_head, live, sched>>
    /\ StepFrame

\* if (prev == NULL) free_head = newBlock; else prev->next_block = newBlock;
Alloc62(t) ==
    /\ thr[t].pc = "a62"
    /\ IF thr[t].prev = NULL
       THEN free_head' = thr[t].newBlock /\ mem' = mem
       ELSE free_head' = free_head
            /\ mem' = Store(mem, thr[t].prev + NextOff, thr[t].newBlock)
    /\ thr' = [thr EXCEPT ![t].pc = "a84"]
    /\ UNCHANGED <<live, sched>>
    /\ StepFrame

\* if (prev == NULL) free_head = curr->next_block;
\* else prev->next_block = curr->next_block;
Alloc73(t) ==
    /\ thr[t].pc = "a73"
    /\ IF thr[t].prev = NULL
       THEN free_head' = NextBlock(mem, thr[t].curr) /\ mem' = mem
       ELSE free_head' = free_head
            /\ mem' = Store(mem, thr[t].prev + NextOff,
                            NextBlock(mem, thr[t].curr))
    /\ thr' = [thr EXCEPT ![t].pc = "a84"]
    /\ UNCHANGED <<live, sched>>
    /\ StepFrame

\* return (void *)((char *)curr + OVERHEAD_SIZE);
Alloc84(t) ==
    /\ thr[t].pc = "a84"
    /\ AllocReturn(t, PayloadOf(thr[t].curr))
    /\ UNCHANGED <<free_head, mem>>
    /\ StepFrame

\* curr->next_block, read to move on
\* faulty variant: the walk does not move on
Advance_Stay(m, curr) == curr

Advance(m, curr) == NextBlock(m, curr)

\* prev = curr; curr = curr->next_block;
Alloc88(t) ==
    /\ thr[t].pc = "a88"
    /\ thr' = [thr EXCEPT ![t] = [@ EXCEPT !.pc = "a47", !.prev = thr[t].curr,
                                            !.curr = Advance(mem, thr[t].curr)]]
    /\ UNCHANGED <<free_head, mem, live, sched>>
    /\ StepFrame

\* the caller calls my_free(ptr) and no longer holds ptr
StartFree(t, ptr, maxCalls) ==
    /\ initialized
    /\ thr[t].pc = "idle"
    /\ thr[t].ncalls < maxCalls
    /\ MayRun(t)
    /\ thr' = [thr EXCEPT ![t] = [@ EXCEPT !.pc = "f99", !.op = "free",
                                            !.ptr = ptr, !.ret = NULL,
                                            !.held = @ \ {ptr},
                                            !.ncalls = @ + 1]]
    /\ live' = live \ {ptr}
    /\ Enter(t)
    /\ UNCHANGED <<free_head, mem>>
    /\ StepFrame

\* return; from my_free
FreeReturn(t) ==
    /\ thr' = [thr EXCEPT ![t] =
                 [Returned(thr[t]) EXCEPT
                     !.freed = thr[t].ptr,
                     !.gave = IF thr[t].ptr = NULL THEN @ ELSE @ \cup {thr[t].ptr}]]
    /\ Leave(t)

\* if (ptr == NULL) return;
\* struct Block *blockToFree = (struct Block *)((char *)ptr - OVERHEAD_SIZE);
Free99(t) ==
    /\ thr[t].pc = "f99"
    /\ IF thr[t].ptr = NULL
       THEN FreeReturn(t)
       ELSE /\ thr' = [thr EXCEPT ![t] = [@ EXCEPT !.pc = "f106",
                                                    !.blockToFree = HeaderOf(thr[t].ptr)]]
            /\ UNCHANGED sched
    /\ UNCHANGED <<free_head, mem, live>>
    /\ StepFrame

\* blockToFree->next_block = free_head;
Free106(t) ==
    /\ thr[t].pc = "f106"
    /\ mem' = Store(mem, thr[t].blockToFree + NextOff, free_head)
    /\ thr' = [thr EXCEPT ![t].pc = "f107"]
    /\ UNCHANGED <<free_head, live, sched>>
    /\ StepFrame

\* free_head = blockToFree;
Free107(t) ==
    /\ thr[t].pc = "f107"
    /\ free_head' = thr[t].blockToFree
    /\ FreeReturn(t)
    /\ UNCHANGED <<mem, live>>
    /\ StepFrame

\* caller t runs the next statement of the function it is in
Run(t) ==
    \/ Alloc33(t) \/ Alloc40(t) \/ Alloc43(t) \/ Alloc47(t) \/ Alloc49(t)
    \/ Alloc52(t) \/ Alloc55(t) \/ Alloc57(t) \/ Alloc59(t) \/ Alloc62(t)
    \/ Alloc73(t) \/ Alloc84(t) \/ Alloc88(t)
    \/ Free99(t) \/ Free106(t) \/ Free107(t)

(***************************************************************************)
(* One well-behaved caller of the line-by-line functions.  A function that *)
(* has been entered keeps running: weak fairness on its statements.        *)
(***************************************************************************)
MaxSeqCalls == 4

SeqSizes == {0, SizeofInt, 80 * SizeofInt}

SeqAlloc == \E size \in SeqSizes : StartAlloc(1, size, MaxSeqCalls)

SeqFree == \E ptr \in thr[1].held \cup {NULL} : StartFree(1, ptr, MaxSeqCalls)

SeqRun == Run(1)

NextSeq == Initialize \/ SeqAlloc \/ SeqFree \/ SeqRun

SpecSeq == Init /\ [][NextSeq]_vars /\ WF_vars(SeqRun)

(***************************************************************************)
(* One caller that may also pass to my_free the pointer it has just        *)
(* released, with no my_alloc in between.                                  *)
(***************************************************************************)
MaxDblCalls == 7

DblSizes == {SizeofInt, 80 * SizeofInt}

DblAlloc == \E size \in DblSizes : StartAlloc(1, size, MaxDblCalls)

DblFree == \E ptr \in thr[1].held : StartFree(1, ptr, MaxDblCalls)

DblFreeAgain ==
    /\ thr[1].freed # NULL
    /\ StartFree(1, thr[1].freed, MaxDblCalls)

DblRun == Run(1)

NextDouble == Initialize \/ DblAlloc \/ DblFree \/ DblFreeAgain \/ DblRun

SpecDouble == Init /\ [][NextDouble]_vars

(***************************************************************************)
(* Two callers running the functions at the same time, their statements    *)
(* interleaved in any order.  The program has no lock; sched.locking       *)
(* chooses between the program as it is and the program with each of the   *)
(* two functions made one critical section.                                *)
(***************************************************************************)
MaxParCalls == 2

ParSizes == {SizeofInt}

InitThreads ==
    /\ free_head = NULL
    /\ mem = [a \in {} |-> 0]
    /\ heap = [base |-> NULL, size |-> 0]
    /\ initialized = FALSE
    /\ live = {}
    /\ call = NoCall
    /\ prev = NoCall
    /\ nalloc = 0
    /\ pc = AtMain(0)
    /\ loc = NoLocals
    /\ nmenu = 0
    /\ arith = NoArith
    /\ thr = NoThreads
    /\ \E l \in BOOLEAN : sched = [NoSched EXCEPT !.locking = l]

ParAlloc == \E t \in Threads, size \in ParSizes : StartAlloc(t, size, MaxParCalls)

ParFree == \E t \in Threads : \E ptr \in thr[t].held : StartFree(t, ptr, MaxParCalls)

ParRun == \E t \in Threads : Run(t)

NextThreads == Initialize \/ ParAlloc \/ ParFree \/ ParRun

SpecThreads == InitThreads /\ [][NextThreads]_vars

(***************************************************************************)
(* What the claims speak about: the free list as a sequence, the blocks of *)
(* the arena, and the arithmetic of the request as the specification       *)
(* states it (ceiling to a multiple, not bit masking).                     *)
(***************************************************************************)
RECURSIVE ListFrom(_, _, _)
ListFrom(m, b, fuel) ==
    IF b = NULL \/ fuel = 0 THEN <<>>
    ELSE <<b>> \o ListFrom(m, m[b + NextOff], fuel - 1)

FreeListOf(h, m) == ListFrom(m, h, Cardinality(DOMAIN m))

FreeList == FreeListOf(free_head, mem)

SeqToSet(q) == {q[i] : i \in 1 .. Len(q)}

FreeBlocks == SeqToSet(FreeList)

LiveBlocks == {p - OVERHEAD_SIZE : p \in live}

AllBlocks == FreeBlocks \cup LiveBlocks

RoundUp(n, unit) == ((n + unit - 1) \div unit) * unit

Required(n) == RoundUp(n, POINTER_SIZE) + OVERHEAD_SIZE

\* the step just taken was my_alloc(size) for some size > 0
AllocStep == call'.op = "alloc" /\ call'.arg > 0

\* the step just taken was my_free(ptr) for a pointer the caller held
FreeStep == call'.op = "free" /\ call'.arg # NULL

\* no block of the free list can hold a request of n bytes
NoneFits(n) == \A b \in FreeBlocks : mem[b] < Required(n)

RECURSIVE SumSizes(_, _)
SumSizes(m, S) ==
    IF S = {} THEN 0
    ELSE LET b == CHOOSE x \in S : TRUE IN m[b] + SumSizes(m, S \ {b})

\* block lo ends exactly where block hi begins
Adjacent(m, lo, hi) == lo + OVERHEAD_SIZE + m[lo] = hi

(***************************************************************************)
(* C1. Reuse (LIFO): on the heap of capacity 1000, when a pointer X has    *)
(* just been released and the next call is my_alloc(s2) with               *)
(* 0 < s2 <= the declared size of X's block, that call returns X.          *)
(***************************************************************************)
C1_ReuseLIFO ==
    [][(/\ heap.size = MainHeapSize
        /\ call.op = "free" /\ call.arg # NULL
        /\ call'.op = "alloc"
        /\ call'.arg > 0
        /\ call'.arg <= mem[call.arg - OVERHEAD_SIZE])
       => call'.ret = call.arg]_vars

(***************************************************************************)
(* C2. Non-overlap: the payload ranges [p, p + block size) of two distinct *)
(* live allocations are disjoint, and no live payload range meets the      *)
(* header [b, b + headerSize) of any block, free or allocated.             *)
(***************************************************************************)
C2_NonOverlap ==
    /\ \A p, q \in live :
          p # q => \/ p + mem[p - OVERHEAD_SIZE] <= q
                   \/ q + mem[q - OVERHEAD_SIZE] <= p
    /\ \A p \in live : \A b \in AllBlocks :
          \/ p + mem[p - OVERHEAD_SIZE] <= b
          \/ b + OVERHEAD_SIZE <= p

\* two live allocations next to a non-empty free list, one of them reusing
\* a block that had been released
C2_Witness ==
    /\ Cardinality(live) >= 2
    /\ Len(FreeList) >= 2

(***************************************************************************)
(* C3. Size guarantee: a successful my_alloc(requestedSize) returns a      *)
(* pointer p to a block whose declared size is >= requestedSize, and       *)
(* [p, p + requestedSize) lies inside                                      *)
(* [base + headerSize, base + headerSize + capacity).                      *)
(***************************************************************************)
C3_SizeGuarantee ==
    (call.op = "alloc" /\ call.ret # NULL) =>
        /\ call.arg > 0
        /\ mem[call.ret - OVERHEAD_SIZE] >= call.arg
        /\ call.ret >= heap.base + OVERHEAD_SIZE
        /\ call.ret + call.arg <= heap.base + OVERHEAD_SIZE + heap.size

\* a request that is no multiple of the unit was served by taking a block whole
C3_Witness ==
    /\ call.op = "alloc" /\ call.ret # NULL
    /\ call.arg = SizeofInt
    /\ call.newBlock = NULL
    /\ mem[call.ret - OVERHEAD_SIZE] > RoundUp(call.arg, POINTER_SIZE)

(***************************************************************************)
(* C4. Out of memory: my_alloc(size), size > 0, returns NULL whenever no   *)
(* free block has size >= roundUp(size, unit) + headerSize, in particular  *)
(* whenever size exceeds the sum of the free blocks' sizes; the head and   *)
(* every word of the arena are then as before the call, and a later        *)
(* request that fits some free block succeeds.                             *)
(***************************************************************************)
C4_OutOfMemory ==
    [][/\ (AllocStep /\ NoneFits(call'.arg)) =>
              (call'.ret = NULL /\ free_head' = free_head /\ mem' = mem)
       /\ (AllocStep /\ call'.arg > SumSizes(mem, FreeBlocks)) =>
              (call'.ret = NULL /\ free_head' = free_head /\ mem' = mem)
       /\ (/\ call.op = "alloc" /\ call.arg > 0 /\ call.ret = NULL
           /\ AllocStep /\ ~NoneFits(call'.arg)) => call'.ret # NULL]_vars

\* a request failed on a non-empty list, and the smaller one after it succeeded
C4_Witness ==
    /\ prev.op = "alloc" /\ prev.arg > 0 /\ prev.ret = NULL
    /\ Len(prev.visited) > 0
    /\ call.op = "alloc" /\ call.ret # NULL /\ call.arg < prev.arg

(***************************************************************************)
(* C5. Hole reuse: when menuOptionThree runs first on the fresh heap of    *)
(* capacity 1000 (A, B, C int-sized; release B; D of two doubles; E        *)
(* int-sized), the pointer E equals the pointer B.                         *)
(***************************************************************************)
C5_HoleReuse ==
    (/\ pc = AtEnd("menuOptionThree")
     /\ nmenu = 1
     /\ heap.base # NULL)
    => loc["numFour"] = loc["numTwo"]

(***************************************************************************)
(* C6. Stride: when my_alloc(requestedSize) was served by splitting a free *)
(* block and the next call is a my_alloc served from the remainder of that *)
(* split, the second pointer minus the first is                            *)
(* headerSize + roundUp(requestedSize, unit).                              *)
(***************************************************************************)
C6_Stride ==
    (/\ prev.op = "alloc" /\ prev.newBlock # NULL
     /\ call.op = "alloc" /\ call.ret # NULL
     /\ call.found = prev.newBlock)
    => call.ret - prev.ret = OVERHEAD_SIZE + RoundUp(prev.arg, POINTER_SIZE)

\* an int right after an 80-int array: it sits 80 * sizeof(int) + headerSize on
C6_Witness ==
    /\ prev.op = "alloc" /\ prev.newBlock # NULL
    /\ prev.arg = 80 * SizeofInt
    /\ call.op = "alloc" /\ call.arg = SizeofInt
    /\ call.found = prev.newBlock
    /\ call.ret = prev.ret + 80 * SizeofInt + OVERHEAD_SIZE

(***************************************************************************)
(* C7. Split correctness: when my_alloc(N) selects a free block of size S  *)
(* with S >= required(N) + headerSize + unit, then after the call the free *)
(* list contains a new block whose header starts required(N) bytes after   *)
(* the selected block's header and whose size is S - required(N), and the  *)
(* selected block's size is roundUp(N, unit).                              *)
(***************************************************************************)
C7_SplitCorrect ==
    [][(/\ AllocStep /\ call'.ret # NULL
        /\ mem[call'.ret - OVERHEAD_SIZE]
              >= Required(call'.arg) + OVERHEAD_SIZE + POINTER_SIZE)
       => LET b == call'.ret - OVERHEAD_SIZE
              n == b + Required(call'.arg)
          IN  /\ n \notin AllBlocks
              /\ n \in FreeBlocks'
              /\ mem'[n] = mem[b] - Required(call'.arg)
              /\ mem'[b] = RoundUp(call'.arg, POINTER_SIZE)]_vars

\* a block in the middle of the list was split
C7_Witness ==
    /\ call.op = "alloc" /\ call.newBlock # NULL
    /\ Len(call.visited) > 1
    /\ call.newBlock \in FreeBlocks

(***************************************************************************)
(* C8. No coalescing.  Two pointers released one after the other, whose    *)
(* blocks are adjacent in the arena in either order.                       *)
(***************************************************************************)
\* the step releases q right after p was released, and their blocks touch
AdjacentPairReleased ==
    /\ call.op = "free" /\ call.arg # NULL
    /\ FreeStep
    /\ \/ Adjacent(mem, call.arg - OVERHEAD_SIZE, call'.arg - OVERHEAD_SIZE)
       \/ Adjacent(mem, call'.arg - OVERHEAD_SIZE, call.arg - OVERHEAD_SIZE)

\* the payload a block made of both would have
MergedSize(m, a, b) == m[a] + OVERHEAD_SIZE + m[b]

\* both are entries of the list, the later one first, with the sizes they had
BothSeparate ==
    LET pb == call.arg - OVERHEAD_SIZE
        qb == call'.arg - OVERHEAD_SIZE
    IN  /\ FreeList' = <<qb>> \o FreeList
        /\ FreeList[1] = pb
        /\ mem'[pb] = mem[pb]
        /\ mem'[qb] = mem[qb]

\* the largest declared size among the blocks S of memory m (0 if none)
MaxSize(m, S) ==
    IF S = {} THEN 0
    ELSE LET b == CHOOSE x \in S : \A y \in S : m[y] <= m[x] IN m[b]

\* a request that the two blocks together could hold, but no block of the
\* list can, fails
MergedOnlyFails ==
    LET pb == call.arg - OVERHEAD_SIZE
        qb == call'.arg - OVERHEAD_SIZE
        largest == MaxSize(mem', FreeBlocks')
    IN  \A k \in {largest} :
          \A n \in 1 .. MergedSize(mem, pb, qb) :
            (Required(n) > k /\ Required(n) <= MergedSize(mem, pb, qb))
                => AllocResult(free_head', mem', n).ret = NULL

(***************************************************************************)
(* C8 as stated: after the two releases both blocks are separate entries   *)
(* with their sizes, no free block has the sum of the two sizes (or the    *)
(* sum plus a header) as its size, and a request only the merged region    *)
(* could satisfy fails.                                                    *)
(***************************************************************************)
C8_NoCoalesce_AsStated ==
    [][AdjacentPairReleased =>
          LET pb == call.arg - OVERHEAD_SIZE
              qb == call'.arg - OVERHEAD_SIZE
          IN  /\ BothSeparate
              /\ \A b \in FreeBlocks' :
                    /\ mem'[b] # mem[pb] + mem[qb]
                    /\ mem'[b] # MergedSize(mem, pb, qb)
              /\ MergedOnlyFails]_vars

(***************************************************************************)
(* C8 amended: after the two releases both blocks are separate entries     *)
(* with their sizes, neither of the two has the sum of the two sizes (or   *)
(* the sum plus a header) as its size and no free block extends over both, *)
(* and a request only the merged region could satisfy fails.               *)
(***************************************************************************)
C8_NoCoalesce ==
    [][AdjacentPairReleased =>
          LET pb == call.arg - OVERHEAD_SIZE
              qb == call'.arg - OVERHEAD_SIZE
              lo == IF pb < qb THEN pb ELSE qb
              hi == IF pb < qb THEN qb ELSE pb
          IN  /\ BothSeparate
              /\ \A b \in {pb, qb} :
                    /\ mem'[b] # mem[pb] + mem[qb]
                    /\ mem'[b] # MergedSize(mem, pb, qb)
              /\ \A b \in FreeBlocks' :
                    ~(b <= lo /\ b + OVERHEAD_SIZE + mem'[b] > hi)
              /\ MergedOnlyFails]_vars

\* two adjacent blocks were released one after the other, and a request that
\* the two together could hold fits no block of the list
C8_Witness ==
    /\ prev.op = "free" /\ prev.arg # NULL
    /\ call.op = "free" /\ call.arg # NULL
    /\ LET pb == prev.arg - OVERHEAD_SIZE
           qb == call.arg - OVERHEAD_SIZE
       IN  /\ Adjacent(mem, pb, qb) \/ Adjacent(mem, qb, pb)
           /\ \E n \in 1 .. MergedSize(mem, pb, qb) :
                 /\ Required(n) <= MergedSize(mem, pb, qb)
                 /\ NoneFits(n)

(***************************************************************************)
(* C9. Release frame: my_free(p) of a live pointer p changes only the      *)
(* free-list head and the next field of p's own block: every other word of *)
(* the arena (the sizes and next fields of all blocks, the payloads of the *)
(* live allocations) is unchanged, and the other live pointers stay live.  *)
(***************************************************************************)
C9_ReleaseFrame ==
    [][FreeStep =>
          /\ DOMAIN mem' = DOMAIN mem
          /\ \A a \in DOMAIN mem :
                a # (call'.arg - OVERHEAD_SIZE) + NextOff => mem'[a] = mem[a]
          /\ live' = live \ {call'.arg}
          /\ heap' = heap]_vars

\* the 80-int array was released while the int after it is still held
C9_Witness ==
    /\ call.op = "free" /\ call.arg # NULL
    /\ mem[call.arg - OVERHEAD_SIZE] = 80 * SizeofInt
    /\ call.arg + 80 * SizeofInt + OVERHEAD_SIZE \in live

(***************************************************************************)
(* C10. Invalid size: my_alloc(requestedSize) with requestedSize <= 0      *)
(* returns NULL, looks at no block, and leaves the head, the arena and the *)
(* live pointers as they were, in every state, before my_initialize_heap   *)
(* included.                                                               *)
(***************************************************************************)
C10_InvalidSize ==
    [][(call'.op = "alloc" /\ call'.arg <= 0) =>
          /\ call'.ret = NULL
          /\ call'.visited = <<>>
          /\ free_head' = free_head
          /\ mem' = mem
          /\ live' = live]_vars

\* a refused request on a heap whose free list had a block that would fit
C10_Witness ==
    /\ call.op = "alloc" /\ call.arg <= 0 /\ call.ret = NULL
    /\ free_head # NULL
    /\ live # {}

(***************************************************************************)
(* C11. my_free(NULL) is a no-op in every state: the head, every word of   *)
(* the arena (so every next link and every size) and the live pointers are *)
(* unchanged.                                                              *)
(***************************************************************************)
C11_FreeNull ==
    [][(call'.op = "free" /\ call'.arg = NULL) =>
          /\ free_head' = free_head
          /\ mem' = mem
          /\ live' = live
          /\ heap' = heap]_vars

\* NULL was released while the list had blocks and a pointer was held
C11_Witness ==
    /\ call.op = "free" /\ call.arg = NULL
    /\ Len(FreeList) >= 2
    /\ live # {}

(***************************************************************************)
(* C12. Unusable state: while there is no arena (malloc failed in          *)
(* my_initialize_heap, or it was never called) the head is NULL and every  *)
(* my_alloc, whatever the size, returns NULL having looked at no block.    *)
(***************************************************************************)
C12_Unusable ==
    heap.base = NULL =>
        /\ free_head = NULL
        /\ live = {}
        /\ \A c \in {prev, call} :
              c.op = "alloc" => (c.ret = NULL /\ c.visited = <<>>)

\* the reservation failed and a request of positive size followed
C12_Witness ==
    /\ initialized /\ heap.base = NULL
    /\ prev.op = "init" /\ prev.ret = NULL
    /\ call.op = "alloc" /\ call.arg > 0 /\ call.ret = NULL

(***************************************************************************)
(* C13. Arena partition: the blocks (free-list entries and live            *)
(* allocations) tile the arena: the lowest header is at the base, each     *)
(* next header starts at the previous header + headerSize + its size, the  *)
(* last block ends at base + headerSize + capacity, and the sum of         *)
(* headerSize + size over all blocks is capacity + headerSize.             *)
(***************************************************************************)
\* the headers met walking from a by header + headerSize + size while the
\* address is a block
RECURSIVE Walk(_, _, _)
Walk(a, fuel, S) ==
    IF fuel = 0 \/ a \notin S THEN <<>>
    ELSE <<a>> \o Walk(a + OVERHEAD_SIZE + mem[a], fuel - 1, S)

C13_Partition ==
    heap.base # NULL =>
        LET w == Walk(heap.base, Cardinality(AllBlocks), AllBlocks)
            last == w[Len(w)]
        IN  /\ FreeBlocks \cap LiveBlocks = {}
            /\ Len(FreeList) = Cardinality(FreeBlocks)
            /\ Len(w) = Cardinality(AllBlocks)
            /\ SeqToSet(w) = AllBlocks
            /\ last + OVERHEAD_SIZE + mem[last]
                  = heap.base + OVERHEAD_SIZE + heap.size
            /\ SumSizes(mem, AllBlocks) + OVERHEAD_SIZE * Cardinality(AllBlocks)
                  = heap.size + OVERHEAD_SIZE

\* four blocks, free and live ones among them
C13_Witness ==
    /\ heap.base # NULL
    /\ Cardinality(AllBlocks) >= 4
    /\ Cardinality(LiveBlocks) >= 2
    /\ Cardinality(FreeBlocks) >= 2

(***************************************************************************)
(* C14. Size alignment.  As stated: for every positive capacity, the       *)
(* declared size of every block (the initial block, every allocated        *)
(* prefix, every split remainder) is a multiple of POINTER_SIZE.           *)
(***************************************************************************)
SizesAligned == \A b \in AllBlocks : mem[b] % POINTER_SIZE = 0

C14_SizeAligned_AsStated == heap.base # NULL => SizesAligned

\* C14 as it holds: the declared size of every block is a multiple of
\* POINTER_SIZE when the capacity given to my_initialize_heap is one
C14_SizeAligned ==
    (heap.base # NULL /\ heap.size % POINTER_SIZE = 0) => SizesAligned

\* a capacity that is a multiple, with prefixes, a remainder and a released
\* block
C14_Witness ==
    /\ heap.base # NULL /\ heap.size % POINTER_SIZE = 0
    /\ Cardinality(LiveBlocks) >= 2
    /\ Cardinality(FreeBlocks) >= 2
    /\ call.op = "alloc" /\ call.newBlock # NULL

(***************************************************************************)
(* C15. After a successful my_initialize_heap(capacity) the free list is   *)
(* exactly one block at the arena base, with size = capacity and next =    *)
(* NULL, and there are no live allocations.                                *)
(***************************************************************************)
C15_InitPost ==
    (call.op = "init" /\ call.ret # NULL) =>
        /\ heap.base # NULL /\ heap.size = call.arg
        /\ free_head = heap.base
        /\ BlockSize(mem, heap.base) = call.arg
        /\ NextBlock(mem, heap.base) = NULL
        /\ FreeList = <<heap.base>>
        /\ live = {}

\* the arena was reserved with a capacity that is not a multiple of 8
C15_Witness ==
    /\ call.op = "init" /\ call.ret # NULL
    /\ call.arg % POINTER_SIZE # 0
    /\ free_head # NULL

(***************************************************************************)
(* C16. my_free(p) of a live p pushes to the front: the head becomes the   *)
(* block OVERHEAD_SIZE bytes before p, its next is the previous head, its  *)
(* size is unchanged, and the rest of the list is the list as it was.      *)
(***************************************************************************)
C16_PushFront ==
    [][FreeStep =>
          LET b == call'.arg - OVERHEAD_SIZE
          IN  /\ free_head' = b
              /\ mem'[b + NextOff] = free_head
              /\ mem'[b] = mem[b]
              /\ FreeList' = <<b>> \o FreeList
              /\ \A x \in FreeBlocks :
                    /\ mem'[x] = mem[x]
                    /\ mem'[x + NextOff] = mem[x + NextOff]]_vars

\* a block was released onto a list that already had two blocks
C16_Witness ==
    /\ call.op = "free" /\ call.arg # NULL
    /\ Len(FreeList) >= 3
    /\ FreeList[1] = call.arg - OVERHEAD_SIZE

(***************************************************************************)
(* C17. First fit.  As stated: a successful my_alloc(size) returns the     *)
(* payload of the first block, in list order, whose size is at least       *)
(* roundUp(size, unit) + headerSize, even when a later block is a tighter  *)
(* fit or has a lower address; every block before it is smaller than that  *)
(* bound and is left unchanged (its size word and its next word).          *)
(***************************************************************************)
\* the position in q of the first block that is at least req bytes, or 0
FirstFitIndex(q, m, req) ==
    IF \E i \in 1..Len(q) : m[q[i]] >= req
    THEN CHOOSE i \in 1..Len(q) :
            /\ m[q[i]] >= req
            /\ \A j \in 1..(i - 1) : m[q[j]] < req
    ELSE 0

AllocOk == AllocStep /\ call'.ret # NULL

C17_FirstFit_AsStated ==
    [][AllocOk =>
          LET q == FreeList
              i == FirstFitIndex(q, mem, Required(call'.arg))
          IN  /\ i > 0
              /\ call'.ret = q[i] + OVERHEAD_SIZE
              /\ \A j \in 1..(i - 1) :
                    /\ mem[q[j]] < Required(call'.arg)
                    /\ mem'[q[j]] = mem[q[j]]
                    /\ mem'[q[j] + NextOff] = mem[q[j] + NextOff]]_vars

\* C17 as it holds: the first block in list order that is large enough is
\* returned; every block before it is smaller than the bound and keeps its
\* size and its place in the list, and keeps its next link unless it is the
\* immediate predecessor, whose next link now skips the returned block
C17_FirstFit ==
    [][AllocOk =>
          LET q == FreeList
              i == FirstFitIndex(q, mem, Required(call'.arg))
          IN  /\ i > 0
              /\ call'.ret = q[i] + OVERHEAD_SIZE
              /\ SubSeq(FreeList', 1, i - 1) = SubSeq(q, 1, i - 1)
              /\ \A j \in 1..(i - 1) :
                    /\ mem[q[j]] < Required(call'.arg)
                    /\ mem'[q[j]] = mem[q[j]]
                    /\ j < i - 1 => mem'[q[j] + NextOff] = mem[q[j] + NextOff]
                    /\ j = i - 1 =>
                          /\ mem'[q[j] + NextOff] # q[i]
                          /\ mem'[q[j] + NextOff] \in
                                {mem[q[i] + NextOff],
                                 q[i] + Required(call'.arg)}]_vars

\* the block returned was followed in the list by a block that also fits
\* and lies at a lower address
C17_Witness ==
    /\ call.op = "alloc" /\ call.ret # NULL
    /\ \E x \in FreeBlocks :
          /\ x < call.found
          /\ mem[x] >= Required(call.arg)
          /\ x \notin SeqToSet(call.visited)

\* a smaller block was passed over and the block after it was returned
C17_WitnessSkipped ==
    /\ call.op = "alloc" /\ call.ret # NULL
    /\ Len(call.visited) >= 2

(***************************************************************************)
(* C18. Consume whole: when the selected block has                         *)
(* required <= size < required + headerSize + unit, my_alloc removes       *)
(* exactly that block from the list, creates no block and leaves its size  *)
(* at the original value; the sizes of live blocks never change, so a      *)
(* later my_free returns the block to the list with that original size.    *)
(***************************************************************************)
RemoveAt(q, i) == SubSeq(q, 1, i - 1) \o SubSeq(q, i + 1, Len(q))

IndexOf(q, x) == CHOOSE i \in 1..Len(q) : q[i] = x

Selected == call'.ret - OVERHEAD_SIZE

Splits == mem[Selected] >= Required(call'.arg) + OVERHEAD_SIZE + POINTER_SIZE

C18_ConsumeWhole ==
    [][/\ (AllocOk /\ ~Splits) =>
             /\ Selected \in FreeBlocks
             /\ mem[Selected] >= Required(call'.arg)
             /\ FreeList' = RemoveAt(FreeList, IndexOf(FreeList, Selected))
             /\ AllBlocks' = AllBlocks
             /\ mem'[Selected] = mem[Selected]
             /\ live' = live \cup {call'.ret}
       /\ \A p \in live \cap live' :
             mem'[p - OVERHEAD_SIZE] = mem[p - OVERHEAD_SIZE]
       /\ FreeStep =>
             /\ mem'[call'.arg - OVERHEAD_SIZE] = mem[call'.arg - OVERHEAD_SIZE]
             /\ call'.arg - OVERHEAD_SIZE \in FreeBlocks']_vars

\* a block was taken whole, with more room than asked for, and has just
\* been released with the size it had
C18_Witness ==
    /\ prev.op = "alloc" /\ prev.ret # NULL /\ prev.newBlock = NULL
    /\ call.op = "free" /\ call.arg = prev.ret
    /\ FreeList[1] = prev.found
    /\ mem[prev.found] > RoundUp(prev.arg, POINTER_SIZE)

(***************************************************************************)
(* C19. my_alloc preserves list order: after a successful call the free    *)
(* list is the list before with the selected block replaced at its         *)
(* position by the split remainder, or deleted when taken whole; all       *)
(* other entries keep their order, sizes and identity.                     *)
(***************************************************************************)
C19_ListOrder ==
    [][AllocOk =>
          LET q == FreeList
              i == IndexOf(q, Selected)
          IN  /\ Selected \in FreeBlocks
              /\ FreeList' = IF Splits
                             THEN [q EXCEPT ![i] = Selected + Required(call'.arg)]
                             ELSE RemoveAt(q, i)
              /\ \A x \in FreeBlocks \ {Selected} : mem'[x] = mem[x]]_vars

\* an interior block was split and the remainder took its place between
\* its neighbours
C19_Witness ==
    /\ call.op = "alloc" /\ call.ret # NULL /\ call.newBlock # NULL
    /\ Len(call.visited) >= 2
    /\ \E i \in 2..(Len(FreeList) - 1) : FreeList[i] = call.newBlock

(***************************************************************************)
(* C20. Rounding arithmetic: for every size in 1..INT_MAX the aligned      *)
(* size computed at line 40 is the least multiple of POINTER_SIZE that is  *)
(* >= size, and required = aligned + OVERHEAD_SIZE is positive and greater *)
(* than size, no addition wrapping around.                                 *)
(***************************************************************************)
\* a is the least multiple of unit that is >= n
LeastMultiple(a, n, unit) == a >= n /\ a % unit = 0 /\ a - n < unit

ArithSound ==
    /\ arith.pc # "trapped"
    /\ ~arith.overflow
    /\ arith.pc \in {"line41", "line43"} =>
          LeastMultiple(arith.alignedSize, arith.size, POINTER_SIZE)
    /\ arith.pc = "line43" =>
          /\ arith.requiredSize > 0
          /\ arith.requiredSize > arith.size
          /\ arith.requiredSize - OVERHEAD_SIZE = arith.alignedSize

C20_Rounding == (1 <= arith.size /\ arith.size <= IntMax) => ArithSound

\* the sizes for which the arithmetic is sound: the aligned size plus the
\* header still fits an int
C20_RoundingInRange ==
    (1 <= arith.size /\ arith.size <= IntMax - OVERHEAD_SIZE - POINTER_SIZE + 1)
        => ArithSound

\* the arithmetic was done for a size in that range, near its upper end
C20_InRangeReached ==
    /\ arith.pc = "line43"
    /\ arith.size = IntMax - OVERHEAD_SIZE - POINTER_SIZE + 1

(***************************************************************************)
(* C21. Well-formedness: in every state reached by well-behaved calls the  *)
(* free list is a finite NULL-terminated chain with no block twice, and    *)
(* every block of the arena is either free (in the list) or in use (live,  *)
(* not in the list); a block changes state only in the my_alloc that       *)
(* returns it or the my_free of its pointer.                               *)
(***************************************************************************)
\* the headers of the arena, found by their sizes from the base up
RECURSIVE Tiles(_, _, _)
Tiles(m, a, end) ==
    IF a >= end \/ a < HeapBase \/ a % POINTER_SIZE # 0 THEN {}
    ELSE {a} \cup Tiles(m, a + OVERHEAD_SIZE + m[a], end)

ArenaBlocks ==
    IF heap.base = NULL THEN {}
    ELSE Tiles(mem, heap.base, heap.base + OVERHEAD_SIZE + heap.size)

ListWellFormedOf(h, m) ==
    \A q \in {FreeListOf(h, m)} :
        /\ Len(q) = Cardinality(SeqToSet(q))
        /\ q # <<>> => m[q[Len(q)] + NextOff] = NULL
        /\ (q = <<>>) = (h = NULL)

ListWellFormed == ListWellFormedOf(free_head, mem)

BlockStates ==
    \A b \in ArenaBlocks : (b \in FreeBlocks) # (b + OVERHEAD_SIZE \in live)

C21_WellFormed ==
    [][\A q \in {FreeList'}, fb \in {FreeBlocks}, abn \in {ArenaBlocks'} :
          \A fbn \in {SeqToSet(q)} :
             /\ Len(q) = Cardinality(fbn)
             /\ q # <<>> => mem'[q[Len(q)] + NextOff] = NULL
             /\ (q = <<>>) = (free_head' = NULL)
             /\ \A b \in abn : (b \in fbn) # (b + OVERHEAD_SIZE \in live')
             /\ fbn \cup LiveBlocks' = abn
             /\ \A b \in fb \ fbn :
                   call'.op = "alloc" /\ call'.ret = b + OVERHEAD_SIZE
             /\ \A b \in (fbn \ fb) \cap LiveBlocks :
                   call'.op = "free" /\ call'.arg = b + OVERHEAD_SIZE
             /\ \A b \in LiveBlocks \ LiveBlocks' : b \in fbn
             /\ \A b \in LiveBlocks' \ LiveBlocks : b \in fb]_vars

\* free and in-use blocks side by side, one of them back in the list after
\* having been in use
C21_Witness ==
    /\ call.op = "free" /\ call.arg # NULL
    /\ Cardinality(ArenaBlocks) >= 4
    /\ Len(FreeList) >= 2
    /\ live # {}

AlignedAt(a) == (a - heap.base) % POINTER_SIZE = 0

C26_PointerAligned ==
    heap.base # NULL =>
        /\ free_head # NULL => AlignedAt(free_head)
        /\ call.newBlock # NULL => AlignedAt(call.newBlock)
        /\ (call.op = "alloc" /\ call.ret # NULL) =>
              AlignedAt(call.ret - OVERHEAD_SIZE)
        /\ \A p \in live : AlignedAt(p - OVERHEAD_SIZE)
        /\ \A b \in AllBlocks : AlignedAt(b)

\* a capacity that is not a multiple of 8, split, and both blocks handed out
C26_Witness ==
    /\ heap.base # NULL /\ heap.size % POINTER_SIZE # 0
    /\ Cardinality(live) >= 2
    /\ call.op = "alloc" /\ call.ret # NULL /\ call.ret # heap.base + OVERHEAD_SIZE

(***************************************************************************)
(* C24. Balanced use.  As stated: from my_initialize_heap(1000), a caller  *)
(* repeating p = my_alloc(sizeof(int)); my_free(p) gets on every round a   *)
(* pointer OVERHEAD_SIZE + POINTER_SIZE above the previous one, until      *)
(* my_alloc returns NULL with nothing live.                                *)
(***************************************************************************)
Stride == OVERHEAD_SIZE + RoundUp(SizeofInt, POINTER_SIZE)

\* the rounds served by splitting the remainder
SplitRounds == (MainHeapSize - 2 * Stride) \div Stride + 1

Min(a, b) == IF a <= b THEN a ELSE b

ScanOnce ==
    /\ ~thr[1].again
    /\ thr[1].pc \in {"a47", "a49", "a52", "a88"} =>
          /\ thr[1].seen \subseteq FreeBlocks
          /\ Cardinality(thr[1].seen) <= Len(FreeList)

C22_Termination ==
    /\ []ScanOnce
    /\ (thr[1].pc # "idle") ~> (thr[1].pc = "idle")

\* the loop has been through a list of two blocks and is about to give up
C22_Witness ==
    /\ thr[1].pc = "a47" /\ thr[1].curr = NULL
    /\ Cardinality(thr[1].seen) >= 2
    /\ thr[1].seen = FreeBlocks

(***************************************************************************)
(* C25. Double release: my_free of the pointer just released is accepted   *)
(* and leaves the block at the head with its next pointing to itself;      *)
(* after that a my_alloc whose request fits no block on the cycle never    *)
(* leaves its loop, and a my_alloc that takes the block whole leaves it in *)
(* the list, so the same pointer is handed out again while it is held.     *)
(***************************************************************************)
\* the blocks met from b by next links
RECURSIVE ReachSet(_, _, _)
ReachSet(m, b, S) ==
    IF b = NULL \/ b \in S THEN S
    ELSE ReachSet(m, m[b + NextOff], S \cup {b})

\* the chain from b comes to NULL
RECURSIVE EndsInNull(_, _, _)
EndsInNull(m, b, S) ==
    IF b = NULL THEN TRUE
    ELSE IF b \in S THEN FALSE
    ELSE EndsInNull(m, m[b + NextOff], S \cup {b})

\* caller t is in the loop of my_alloc on a chain that has no end and no
\* block large enough
Stuck(t) ==
    /\ thr[t].pc \in {"a47", "a49", "a88"}
    /\ thr[t].curr # NULL
    /\ ~EndsInNull(mem, thr[t].curr, {})
    /\ \A x \in ReachSet(mem, thr[t].curr, {}) :
          mem[x] < Required(thr[t].size)

\* the statement about to run is the last of a second my_free(ptr)
SecondRelease == thr[1].pc = "f107" /\ thr[1].ptr = thr[1].freed

C25_DoubleFree ==
    [][/\ SecondRelease =>
             /\ thr'[1].pc = "idle"
             /\ free_head' = thr[1].ptr - OVERHEAD_SIZE
             /\ mem'[thr[1].ptr - OVERHEAD_SIZE + NextOff]
                   = thr[1].ptr - OVERHEAD_SIZE
             /\ ~EndsInNull(mem', free_head', {})
       /\ Stuck(1) => Stuck(1)'
       /\ (/\ thr[1].pc = "a73" /\ thr[1].prev = NULL
           /\ mem[thr[1].curr + NextOff] = thr[1].curr) =>
             /\ free_head' = thr[1].curr
             /\ thr'[1].pc = "a84"
       /\ (/\ thr[1].pc = "a84"
           /\ free_head = thr[1].curr
           /\ thr[1].curr + OVERHEAD_SIZE \in thr[1].held) =>
             /\ thr'[1].ret = thr[1].curr + OVERHEAD_SIZE
             /\ thr'[1].ret \in thr'[1].twice]_vars

\* after a double release one pointer has been handed out while it was
\* held, and a larger request is now going round the cycle
C25_Witness ==
    /\ thr[1].twice # {}
    /\ Stuck(1)
    /\ mem[free_head + NextOff] = free_head

(***************************************************************************)
(* C27. No thread safety: with the statements of two callers interleaved   *)
(* and no mutual exclusion, a state is reached where both my_alloc calls   *)
(* returned the same pointer, or where a released block is in nobody's     *)
(* hands and not in the list; with each function run as one critical       *)
(* section no such state is reached.                                       *)
(***************************************************************************)
AllIdle == \A t \in Threads : thr[t].pc = "idle"

\* both callers hold the same pointer
SamePointer == thr[1].held \cap thr[2].held # {}

\* a pointer handed out while somebody held it
HandedTwice == \E t \in Threads : thr[t].twice # {}

\* a block that was released is neither held again nor in the list
LostBlock ==
    /\ AllIdle
    /\ \E t \in Threads : \E p \in thr[t].gave :
          /\ p \notin AllHeld
          /\ p - OVERHEAD_SIZE \notin FreeBlocks

C27_Atomic ==
    sched.locking =>
        /\ ~SamePointer
        /\ ~HandedTwice
        /\ ~LostBlock
        /\ AllIdle => (ListWellFormed /\ live = AllHeld)

\* without exclusion both callers came back from my_alloc with one pointer
C27_Witness ==
    /\ ~sched.locking
    /\ AllIdle
    /\ SamePointer
    /\ thr[1].op = "alloc" /\ thr[2].op = "alloc"

\* without exclusion a released block is lost
C27_WitnessLost ==
    /\ ~sched.locking
    /\ LostBlock
    /\ ~HandedTwice

\* with exclusion both callers have allocated and released
C27_WitnessLocked ==
    /\ sched.locking
    /\ AllIdle
    /\ \A t \in Threads : thr[t].gave # {}

====
